---------------------------- MODULE Spec2Model ----------------------------
(***************************************************************************)
(* A model of the Vector value type of pgvectorcpp                         *)
(* (src/src-cpp/core/vector.hpp, src/src-cpp/core/vector.cpp).             *)
(*                                                                         *)
(* A Vector is the record [vl_len_, dim, unused, data]: the three header   *)
(* fields of the class and its std::vector<float>.  A float is the record  *)
(* [s, e, m] of its IEEE-754 binary32 sign, biased exponent and fraction,  *)
(* so that comparison, arithmetic and the byte image are computed on the   *)
(* representation and not assumed.  Sequences are 1-based: element i of    *)
(* the code is data[i + 1] here.                                           *)
(*                                                                         *)
(* Six specifications share the module:                                    *)
(*   Spec      the life of Vector objects held in two variables: the       *)
(*             constructors, assignments, element access, serialize and    *)
(*             deserialize;                                                *)
(*   SpecNew   Vector(int16) applied to an argument drawn by Init;         *)
(*   SpecArith the const arithmetic and metric methods applied to operands *)
(*             drawn by Init;                                              *)
(*   SpecCmp   the six comparison operators applied to operands drawn by   *)
(*             Init;                                                       *)
(*   SpecEq    operator== and operator!= applied to operands drawn by      *)
(*             Init, with varied header fields;                            *)
(*   SpecPool  the allocate and reset calls on a MemoryPool                *)
(*             (src/src-cpp/utils/memory_utils.hpp).                       *)
(***************************************************************************)
EXTENDS Integers, Sequences, FiniteSets, TLC

VARIABLES
    vecs,   \* Spec: the Vector object held by each program variable
    life,   \* Spec: "none" (not constructed), "live" or "moved" (moved from)
    last,   \* Spec: the outcome of the most recent operation
    opnd,   \* SpecArith, SpecCmp: the operands the methods are applied to
    out,    \* SpecArith, SpecCmp: what the applied method returned
    pool    \* SpecPool: the MemoryPool object

vars == <<vecs, life, last, opnd, out, pool>>

---------------------------------------------------------------------------
(* Bounds of the model.                                                    *)

\* Largest dimension of a Vector kept in a program variable of Spec.
MaxDim == 2

\* SpecNew constructs with every argument within NewSpan of an edge.
NewSpan == 12

\* Largest dimension of the operands SpecCmp compares.
CmpDim == 2

\* Largest dimension of the operands of SpecArith.
ArithDim == 2

\* Largest dimension of the operands of SpecEq.
EqDim == 2

\* Program constant: #define VECTOR_MAX_DIM 16000.
VECTOR_MAX_DIM == 16000

---------------------------------------------------------------------------
(* Fixed-width integers: int16 and int32 (vector.hpp 37-38) and their      *)
(* little-endian two's-complement byte images, as memcpy reads and writes  *)
(* them on the little-endian hosts the code is built for.                  *)

Max(a, b) == IF a >= b THEN a ELSE b
Min(a, b) == IF a <= b THEN a ELSE b

\* The conversion of an int argument to an int16 parameter: modulo 2^16.
ToInt16(n) == ((n + 32768) % 65536) - 32768

Int16Bytes(v) ==
    LET u == IF v < 0 THEN v + 65536 ELSE v
    IN  <<u % 256, u \div 256>>

BytesInt16(b) ==
    LET u == b[1] + 256 * b[2]
    IN  IF u >= 32768 THEN u - 65536 ELSE u

Int32Bytes(v) ==
    LET low == IF v < 0 THEN (v + 2147483647) + 1 ELSE v   \* the low 31 bits
    IN  << low % 256,
           (low \div 256) % 256,
           (low \div 65536) % 256,
           (low \div 16777216) + (IF v < 0 THEN 128 ELSE 0) >>

BytesInt32(b) ==
    LET low == b[1] + 256 * b[2] + 65536 * b[3] + 16777216 * (b[4] % 128)
    IN  IF b[4] >= 128 THEN (low - 2147483647) - 1 ELSE low

---------------------------------------------------------------------------
(* IEEE-754 binary32 values.                                               *)

Flt(s, e, m) == [s |-> s, e |-> e, m |-> m]

PosZero == Flt(0, 0, 0)
NegZero == Flt(1, 0, 0)
One     == Flt(0, 127, 0)
Two     == Flt(0, 128, 0)
NegTwo  == Flt(1, 128, 0)
PosInf  == Flt(0, 255, 0)
QNaN    == Flt(0, 255, 4194304)      \* 0x7fc00000

IsNaN(x)  == x.e = 255 /\ x.m # 0
IsZero(x) == x.e = 0 /\ x.m = 0

\* The position of a non-NaN float on the number line, as an integer that
\* orders like the value: sign-magnitude with both zeros at 0.
FKey(x) == LET mag == x.e * 8388608 + x.m IN IF x.s = 1 THEN 0 - mag ELSE mag

\* The built-in comparisons of float: false whenever an operand is a NaN.
FLess(x, y)    == ~IsNaN(x) /\ ~IsNaN(y) /\ FKey(x) < FKey(y)
FGreater(x, y) == FLess(y, x)
FEq(x, y)      == ~IsNaN(x) /\ ~IsNaN(y) /\ FKey(x) = FKey(y)

\* The object representation of a float, least significant byte first.
FloatBytes(x) ==
    << x.m % 256,
       (x.m \div 256) % 256,
       (x.e % 2) * 128 + (x.m \div 65536),
       x.s * 128 + (x.e \div 2) >>

BytesFloat(b) ==
    Flt(b[4] \div 128,
        (b[4] % 128) * 2 + (b[3] \div 128),
        (b[3] % 128) * 65536 + b[2] * 256 + b[1])

---------------------------------------------------------------------------
(* float arithmetic: +, -, *, /, std::sqrt and std::abs on binary32,       *)
(* rounding to nearest, ties to even, as the code's float expressions are  *)
(* evaluated.  A finite float is sig * 2^exp with sig < 2^24.              *)

RECURSIVE BitLen(_)
BitLen(n) == IF n = 0 THEN 0 ELSE 1 + BitLen(n \div 2)

IsInf(x)    == x.e = 255 /\ x.m = 0
IsFinite(x) == x.e < 255
Sig(x)      == IF x.e = 0 THEN x.m ELSE 8388608 + x.m
Exp(x)      == IF x.e = 0 THEN 0 - 149 ELSE x.e - 150
Xor(a, b)   == (a + b) % 2

\* The NaN an invalid operation produces, and the NaN an operation on NaN
\* operands returns (the first NaN operand, quieted).
Quiet(x) == Flt(x.s, 255, 4194304 + (x.m % 4194304))
NaNOf(x, y) == IF IsNaN(x) THEN Quiet(x) ELSE Quiet(y)

\* v shifted right by d bits, any 1 shifted out kept in the lowest bit.
ShiftRightJam(v, d) ==
    IF d <= 0 THEN v
    ELSE IF d >= 31 THEN (IF v # 0 THEN 1 ELSE 0)
    ELSE LET q == v \div (2 ^ d)
         IN  IF v % (2 ^ d) # 0 /\ q % 2 = 0 THEN q + 1 ELSE q

\* The float nearest to sig * 2^exp (0 < sig < 2^31), ties to even; a sig
\* whose lowest bit stands for bits lost below it must have at least 26 bits.
RoundPack(sign, sig, exp) ==
    LET top    == exp + BitLen(sig) - 1           \* sig * 2^exp is in [2^top, 2^(top+1))
        quant  == IF top + 127 >= 1 THEN top - 23 ELSE 0 - 149
        shift  == quant - exp
        kept   == IF shift <= 0 THEN sig * (2 ^ (0 - shift))
                  ELSE IF shift >= 31 THEN 0
                  ELSE sig \div (2 ^ shift)
        rem    == IF shift <= 0 THEN 0
                  ELSE IF shift >= 31 THEN sig
                  ELSE sig % (2 ^ shift)
        up     == IF shift <= 0 THEN FALSE
                  ELSE IF shift >= 32 THEN FALSE
                  ELSE LET half == 2 ^ (shift - 1)
                       IN  rem > half \/ (rem = half /\ kept % 2 = 1)
        mant   == IF up THEN kept + 1 ELSE kept    \* <= 2^24
        bits   == IF top + 127 >= 1 THEN (top + 126) * 8388608 + mant ELSE mant
    IN  IF top + 127 >= 255 \/ bits >= 255 * 8388608
        THEN Flt(sign, 255, 0)
        ELSE Flt(sign, bits \div 8388608, bits % 8388608)

\* x + y
FAdd(x, y) ==
    IF IsNaN(x) \/ IsNaN(y) THEN NaNOf(x, y)
    ELSE IF IsInf(x) THEN (IF IsInf(y) /\ x.s # y.s THEN QNaN ELSE x)
    ELSE IF IsInf(y) THEN y
    ELSE IF IsZero(x) /\ IsZero(y) THEN (IF x.s = 1 /\ y.s = 1 THEN NegZero ELSE PosZero)
    ELSE IF IsZero(x) THEN y
    ELSE IF IsZero(y) THEN x
    ELSE LET xbig == Exp(x) >= Exp(y)
             big  == IF xbig THEN x ELSE y
             sml  == IF xbig THEN y ELSE x
             a    == Sig(big) * 32
             b    == ShiftRightJam(Sig(sml) * 32, Exp(big) - Exp(sml))
             sum  == (IF big.s = 1 THEN 0 - a ELSE a) + (IF sml.s = 1 THEN 0 - b ELSE b)
         IN  IF sum = 0 THEN PosZero
             ELSE RoundPack(IF sum < 0 THEN 1 ELSE 0,
                            IF sum < 0 THEN 0 - sum ELSE sum, Exp(big) - 5)

FNeg(x) == Flt(1 - x.s, x.e, x.m)

\* x - y
FSub(x, y) == IF IsNaN(x) \/ IsNaN(y) THEN NaNOf(x, y) ELSE FAdd(x, FNeg(y))

\* x * y
FMul(x, y) ==
    IF IsNaN(x) \/ IsNaN(y) THEN NaNOf(x, y)
    ELSE IF IsInf(x) \/ IsInf(y)
         THEN (IF IsZero(x) \/ IsZero(y) THEN QNaN ELSE Flt(Xor(x.s, y.s), 255, 0))
    ELSE IF IsZero(x) \/ IsZero(y) THEN Flt(Xor(x.s, y.s), 0, 0)
    ELSE LET h1   == Sig(x) \div 4096
             l1   == Sig(x) % 4096
             h2   == Sig(y) \div 4096
             l2   == Sig(y) % 4096
             mid  == h1 * l2 + l1 * h2
             t    == l1 * l2 + (mid % 4096) * 4096
             lo   == t % 16777216                  \* the product is hi * 2^24 + lo
             hi   == h1 * h2 + (mid \div 4096) + (t \div 16777216)
             exp  == Exp(x) + Exp(y)
             g    == 29 - BitLen(hi)               \* bits of lo that join hi
             cut  == 2 ^ (24 - g)
             top  == hi * (2 ^ g) + (lo \div cut)
             jam  == IF lo % cut # 0 /\ top % 2 = 0 THEN top + 1 ELSE top
         IN  IF hi < 128
             THEN RoundPack(Xor(x.s, y.s), hi * 16777216 + lo, exp)
             ELSE RoundPack(Xor(x.s, y.s), jam, exp + 24 - g)

\* A significand shifted up to 24 bits, and what the shift takes off exp.
NormShift(sig) == 24 - BitLen(sig)

\* n quotient bits of r / d by long division, r < 2 * d: <<quotient, rest>>.
RECURSIVE DivBits(_, _, _, _)
DivBits(r, d, n, q) ==
    IF n = 0 THEN <<q, r>>
    ELSE IF r >= d THEN DivBits(2 * (r - d), d, n - 1, 2 * q + 1)
    ELSE DivBits(2 * r, d, n - 1, 2 * q)

\* x / y
FDiv(x, y) ==
    IF IsNaN(x) \/ IsNaN(y) THEN NaNOf(x, y)
    ELSE IF IsInf(x) THEN (IF IsInf(y) THEN QNaN ELSE Flt(Xor(x.s, y.s), 255, 0))
    ELSE IF IsInf(y) THEN Flt(Xor(x.s, y.s), 0, 0)
    ELSE IF IsZero(y) THEN (IF IsZero(x) THEN QNaN ELSE Flt(Xor(x.s, y.s), 255, 0))
    ELSE IF IsZero(x) THEN Flt(Xor(x.s, y.s), 0, 0)
    ELSE LET sx == NormShift(Sig(x))
             sy == NormShift(Sig(y))
             n  == Sig(x) * (2 ^ sx)
             d  == Sig(y) * (2 ^ sy)
             qr == DivBits(n, d, 28, 0)            \* floor(n * 2^27 / d)
             q  == IF qr[2] # 0 /\ qr[1] % 2 = 0 THEN qr[1] + 1 ELSE qr[1]
         IN  RoundPack(Xor(x.s, y.s), q, (Exp(x) - sx) - (Exp(y) - sy) - 27)

\* The square root of v * 4^n digit by digit, v's bit pairs from pair k
\* down to pair 0 and then n zero pairs: <<root, rest>>.
RECURSIVE SqrtBits(_, _, _, _, _)
SqrtBits(v, k, n, q, r) ==
    IF k < 0 /\ n = 0 THEN <<q, r>>
    ELSE LET pair == IF k >= 0 THEN (v \div (4 ^ k)) % 4 ELSE 0
             r4   == 4 * r + pair
             t    == 4 * q + 1
             k1   == IF k >= 0 THEN k - 1 ELSE k
             n1   == IF k >= 0 THEN n ELSE n - 1
         IN  IF r4 >= t THEN SqrtBits(v, k1, n1, 2 * q + 1, r4 - t)
             ELSE SqrtBits(v, k1, n1, 2 * q, r4)

\* std::sqrt(x)
FSqrt(x) ==
    IF IsNaN(x) THEN Quiet(x)
    ELSE IF IsZero(x) THEN x
    ELSE IF x.s = 1 THEN QNaN
    ELSE IF IsInf(x) THEN x
    ELSE LET sh  == NormShift(Sig(x))
             e0  == Exp(x) - sh
             odd == e0 % 2 = 1
             v   == Sig(x) * (2 ^ sh) * (IF odd THEN 2 ELSE 1)    \* < 2^25
             e   == IF odd THEN e0 - 1 ELSE e0
             qr  == SqrtBits(v, 12, 14, 0, 0)      \* floor(sqrt(v * 4^14))
             q   == IF qr[2] # 0 /\ qr[1] % 2 = 0 THEN qr[1] + 1 ELSE qr[1]
         IN  RoundPack(0, q, (e \div 2) - 14)

\* std::abs(x)
FAbs(x) == Flt(0, x.e, x.m)

\* A 72-bit natural number is the triple <<a, b, c>> of its 24-bit digits:
\* a * 2^48 + b * 2^24 + c.
WideBitLen(w) ==
    IF w[1] # 0 THEN 48 + BitLen(w[1])
    ELSE IF w[2] # 0 THEN 24 + BitLen(w[2])
    ELSE BitLen(w[3])

\* w * 2^n for a product below 2^72 (n < 72).
WideShiftLeft(w, n) ==
    LET q == n \div 24
        r == n % 24
        d == IF q = 0 THEN w
             ELSE IF q = 1 THEN <<w[2], w[3], 0>>
             ELSE <<w[3], 0, 0>>
        keep == 2 ^ (24 - r)
    IN  << (d[1] % keep) * (2 ^ r) + (d[2] \div keep),
           (d[2] % keep) * (2 ^ r) + (d[3] \div keep),
           (d[3] % keep) * (2 ^ r) >>

\* w shifted right by n bits, any 1 shifted out kept in the lowest bit.
WideShiftRightJam(w, n) ==
    IF n >= 72 THEN <<0, 0, IF w = <<0, 0, 0>> THEN 0 ELSE 1>>
    ELSE LET q == n \div 24
             r == n % 24
             d == IF q = 0 THEN w
                  ELSE IF q = 1 THEN <<0, w[1], w[2]>>
                  ELSE <<0, 0, w[1]>>
             lostDigits == IF q = 0 THEN FALSE
                           ELSE IF q = 1 THEN w[3] # 0
                           ELSE w[2] # 0 \/ w[3] # 0
             cut  == 2 ^ r
             up   == 2 ^ (24 - r)
             low  == (d[2] % cut) * up + (d[3] \div cut)
             lost == lostDigits \/ d[3] % cut # 0
         IN  << d[1] \div cut,
                (d[1] % cut) * up + (d[2] \div cut),
                IF lost /\ low % 2 = 0 THEN low + 1 ELSE low >>

\* u + v for a sum below 2^72.
WideAdd(u, v) ==
    LET c == u[3] + v[3]
        b == u[2] + v[2] + (c \div 16777216)
        a == u[1] + v[1] + (b \div 16777216)
    IN  <<a, b % 16777216, c % 16777216>>

WideLess(u, v) ==
    \/ u[1] < v[1]
    \/ u[1] = v[1] /\ u[2] < v[2]
    \/ u[1] = v[1] /\ u[2] = v[2] /\ u[3] < v[3]

\* u - v for u >= v.
WideSub(u, v) ==
    LET c  == u[3] - v[3]
        bc == IF c < 0 THEN 1 ELSE 0
        b  == u[2] - v[2] - bc
        bb == IF b < 0 THEN 1 ELSE 0
    IN  <<u[1] - v[1] - bb, b + bb * 16777216, c + bc * 16777216>>

\* The value of the one expression in S, computed once.
Only(S) == CHOOSE v \in S : TRUE

\* The exact product Sig(x) * Sig(y), below 2^48.
WideProduct(x, y) ==
    LET h1  == Sig(x) \div 4096
        l1  == Sig(x) % 4096
        h2  == Sig(y) \div 4096
        l2  == Sig(y) % 4096
        mid == h1 * l2 + l1 * h2
        t   == l1 * l2 + (mid % 4096) * 4096
    IN  <<0, h1 * h2 + (mid \div 4096) + (t \div 16777216), t % 16777216>>

\* w * 2^exp on the 72 bits whose bit 0 weighs 2^e0.
WideAlign(w, exp, e0) ==
    IF exp >= e0 THEN WideShiftLeft(w, exp - e0)
    ELSE WideShiftRightJam(w, e0 - exp)

\* The float nearest to sum * 2^e0.
WideRound(sign, sum, e0) ==
    LET n   == WideBitLen(sum)
        cut == WideShiftRightJam(sum, Max(0, n - 30))
    IN  IF n = 0 THEN PosZero
        ELSE RoundPack(sign, cut[2] * 16777216 + cut[3], e0 + Max(0, n - 30))

\* The float nearest to P * 2^e0 + Z * 2^e0, of signs sp and sz.
WideSum(sp, P, sz, Z, e0) ==
    IF sp = sz THEN Only({WideRound(sp, sum, e0) : sum \in {WideAdd(P, Z)}})
    ELSE IF WideLess(P, Z)
    THEN Only({WideRound(sz, sum, e0) : sum \in {WideSub(Z, P)}})
    ELSE Only({WideRound(sp, sum, e0) : sum \in {WideSub(P, Z)}})

\* x * y + z with one rounding, of the exact sum: the fused multiply-add a
\* compiler may contract the expression `sum += a * b` into.  The exact
\* product and the addend are laid on 72 bits whose bit 70 is the higher of
\* their leading bits; what falls below bit 0 is kept in bit 0.
FMulAdd(x, y, z) ==
    IF IsNaN(x) \/ IsNaN(y) \/ IsNaN(z)
    THEN (IF IsNaN(x) \/ IsNaN(y) THEN NaNOf(x, y) ELSE Quiet(z))
    ELSE IF (IsInf(x) /\ IsZero(y)) \/ (IsZero(x) /\ IsInf(y)) THEN QNaN
    ELSE IF IsInf(x) \/ IsInf(y)
         THEN (IF IsInf(z) /\ z.s # Xor(x.s, y.s) THEN QNaN
               ELSE Flt(Xor(x.s, y.s), 255, 0))
    ELSE IF IsInf(z) THEN z
    ELSE IF IsZero(x) \/ IsZero(y) THEN FAdd(Flt(Xor(x.s, y.s), 0, 0), z)
    ELSE IF IsZero(z) THEN FMul(x, y)
    ELSE Only({ Only({ Only({ WideSum(Xor(x.s, y.s), P, z.s, Z, e0) :
                                 P \in {WideAlign(prod, Exp(x) + Exp(y), e0)},
                                 Z \in {WideAlign(<<0, 0, Sig(z)>>, Exp(z), e0)} }) :
                         e0 \in {Max(Exp(x) + Exp(y) + WideBitLen(prod),
                                     Exp(z) + BitLen(Sig(z))) - 71} }) :
                 prod \in {WideProduct(x, y)} })

---------------------------------------------------------------------------
(* The Vector class: vector.hpp 40-100.                                    *)

Vec(len, d, u, xs) == [vl_len_ |-> len, dim |-> d, unused |-> u, data |-> xs]

\* Vector(): vl_len_(0), dim(0), unused(0), empty data.
DefaultVector == Vec(0, 0, 0, <<>>)

\* What a call returns: a status ("ok", or the kind of the exception thrown)
\* and, when ok, the Vector.
Ok(v)       == [status |-> "ok", vec |-> v]
Throw(kind) == [status |-> kind, vec |-> DefaultVector]

\* validate_dimension as it would be without its upper bound.
validate_dimension_no_max(d) ==
    IF d < 1 THEN "InvalidDimension" ELSE "ok"

\* validate_dimension as it would be with the upper bound off by one.
validate_dimension_off_by_one(d) ==
    IF d < 1 THEN "InvalidDimension"
    ELSE IF d >= VECTOR_MAX_DIM THEN "InvalidDimension"
    ELSE "ok"

\* validate_dimension: "ok" or the exception it throws.
validate_dimension(d) ==
    IF d < 1 THEN "InvalidDimension"
    ELSE IF d > VECTOR_MAX_DIM THEN "InvalidDimension"
    ELSE "ok"

\* Vector(int16 dimensions): validate, then data.resize(dimensions), which
\* value-initialises every element to +0.0f.
VectorOfDim(dimensions) ==
    IF validate_dimension(dimensions) # "ok"
    THEN Throw(validate_dimension(dimensions))
    ELSE Ok(Vec(0, dimensions, 0, [i \in 1..dimensions |-> PosZero]))

\* check_compatibility: "ok" or the exception it throws.
check_compatibility(a, b) ==
    IF a.dim # b.dim THEN "DimensionMismatch" ELSE "ok"

getDim(v) == v.dim

---------------------------------------------------------------------------
(* Comparison operators: vector.cpp 83-111.                                *)

\* operator== as it would be if it compared the reserved field as well.
OpEq_with_header(a, b) ==
    IF a.dim # b.dim THEN FALSE
    ELSE a.unused = b.unused
         /\ \A i \in 1..Len(a.data) : FEq(a.data[i], b.data[i])

\* operator==: the dimensions, then std::equal over this->data.
OpEq(a, b) ==
    IF a.dim # b.dim THEN FALSE
    ELSE \A i \in 1..Len(a.data) : FEq(a.data[i], b.data[i])

\* operator!=
OpNe(a, b) == ~OpEq(a, b)

\* The number of elements operator== reads of each operand: none when the
\* dimensions differ, else std::equal reads up to the first pair that
\* differs, or all data.size() of them.
EqualReads(a, b) ==
    IF a.dim # b.dim THEN 0
    ELSE LET differ == {i \in 1..Len(a.data) : ~FEq(a.data[i], b.data[i])}
         IN  IF differ = {} THEN Len(a.data)
             ELSE CHOOSE i \in differ : \A j \in differ : i <= j

\* The loop of operator< from index i (1-based) up to min_dim, and the
\* return that follows it.
RECURSIVE LessFrom(_, _, _, _)
LessFrom(a, b, i, min_dim) ==
    IF i > min_dim THEN a.dim < b.dim
    ELSE IF FLess(a.data[i], b.data[i]) THEN TRUE
    ELSE IF FGreater(a.data[i], b.data[i]) THEN FALSE
    ELSE LessFrom(a, b, i + 1, min_dim)

\* operator<
OpLess(a, b) == LessFrom(a, b, 1, Min(a.dim, b.dim))

\* operator<=, operator>, operator>=
OpLe(a, b) == OpLess(a, b) \/ OpEq(a, b)
OpGt(a, b) == ~OpLe(a, b)
OpGe(a, b) == ~OpLess(a, b)


\* The copy as it would be if it copied the elements only and left the
\* header fields as Vector(dim) sets them.
CopyOf_elements_only(other) == Vec(0, other.dim, 0, other.data)

\* Vector(const Vector& other): every field copied, the storage duplicated.
CopyOf(other) == Vec(other.vl_len_, other.dim, other.unused, other.data)

\* What a move would leave in its source if it did not reset dim.
MovedFrom_keeps_dim(other) == Vec(0, other.dim, other.unused, <<>>)

\* What a move leaves in its source: dim and vl_len_ are reset, unused is
\* kept, and the std::vector that was moved from is empty.
MovedFrom(other) == Vec(0, 0, other.unused, <<>>)

\* this->data.size(), the bound of the storage operator[] indexes.
DataSize(v) == Len(v.data)

\* operator=(const Vector&) interrupted by std::bad_alloc from
\* data = other.data: vl_len_, dim and unused are other's, data is kept.
AssignTorn(self, other) == Vec(other.vl_len_, other.dim, other.unused, self.data)

\* validate_index: "ok" or the exception it throws.  No method calls it.
validate_index(v, index) ==
    IF index >= v.dim THEN "IndexOutOfRange" ELSE "ok"

\* data[index] = value for an index inside the storage.
StoreAt(v, index, value) == [v EXCEPT !.data[index + 1] = value]

---------------------------------------------------------------------------
(* Binary I/O: vector.cpp 164-198.                                         *)

\* serialize() as it would be if it wrote the reserved field as the zero
\* the class comment promises instead of copying the member.
serialize_zero_reserved(v) ==
    LET head == Int32Bytes(v.vl_len_) \o Int16Bytes(v.dim) \o Int16Bytes(0)
    IN  [k \in 1..(8 + 4 * v.dim) |->
            IF k <= 8 THEN head[k]
            ELSE FloatBytes(v.data[((k - 9) \div 4) + 1])[((k - 9) % 4) + 1]]

\* The bytes serialize() writes, in order: vl_len_, dim, unused, then
\* dim * sizeof(float) bytes copied from data.data().
serialize(v) ==
    LET head == Int32Bytes(v.vl_len_) \o Int16Bytes(v.dim) \o Int16Bytes(v.unused)
    IN  [k \in 1..(8 + 4 * v.dim) |->
            IF k <= 8 THEN head[k]
            ELSE FloatBytes(v.data[((k - 9) \div 4) + 1])[((k - 9) % 4) + 1]]

\* Byte k of a buffer of Len(bytes) bytes; g stands for whatever lies in
\* memory past the end of the buffer.
ReadByte(bytes, k, g) == IF k <= Len(bytes) THEN bytes[k] ELSE g

\* deserialize() as it would be if it left the reserved field of the new
\* vector at the zero its constructor gives it.
deserialize_drop_unused(bytes, g) ==
    LET Rd(k)      == ReadByte(bytes, k, g)
        vl_len     == BytesInt32(<<Rd(1), Rd(2), Rd(3), Rd(4)>>)
        dimensions == BytesInt16(<<Rd(5), Rd(6)>>)
        made       == VectorOfDim(dimensions)
    IN  IF made.status # "ok"
        THEN [status |-> made.status, vec |-> made.vec, nread |-> 8]
        ELSE [status |-> "ok",
              vec    |-> Vec(vl_len, made.vec.dim, made.vec.unused,
                             [i \in 1..dimensions |->
                                 BytesFloat(<<Rd(4 * i + 5), Rd(4 * i + 6),
                                              Rd(4 * i + 7), Rd(4 * i + 8)>>)]),
              nread  |-> 8 + 4 * dimensions]

\* deserialize(): the three header fields, Vector vec(dimensions), then
\* dimensions * sizeof(float) bytes copied into vec.data.  nread is the
\* number of bytes it reads starting at buffer, whatever the buffer's size.
deserialize(bytes, g) ==
    LET Rd(k)      == ReadByte(bytes, k, g)
        vl_len     == BytesInt32(<<Rd(1), Rd(2), Rd(3), Rd(4)>>)
        dimensions == BytesInt16(<<Rd(5), Rd(6)>>)
        unused_val == BytesInt16(<<Rd(7), Rd(8)>>)
        made       == VectorOfDim(dimensions)
    IN  IF made.status # "ok"
        THEN [status |-> made.status, vec |-> made.vec, nread |-> 8]
        ELSE [status |-> "ok",
              vec    |-> Vec(vl_len, made.vec.dim, unused_val,
                             [i \in 1..dimensions |->
                                 BytesFloat(<<Rd(4 * i + 5), Rd(4 * i + 6),
                                              Rd(4 * i + 7), Rd(4 * i + 8)>>)]),
              nread  |-> 8 + 4 * dimensions]


---------------------------------------------------------------------------
(* Spec: Vector objects in program variables.                              *)

\* The program variables that hold a Vector.
Slots == {"a", "b"}

\* The values a caller writes through setValue and operator[].
SetFloats == {One}

\* What a read past the end of an object may find there.
GarbageBytes  == {0, 1, 255}
GarbageFloats == {PosZero, QNaN}

\* The indexes callers pass: every valid one, and MaxDim, which is past the
\* end of every Vector a variable holds.
Indexes == 0..MaxDim

\* The dimensions callers of Spec construct Vectors with: every one a
\* variable may hold, and one on each side of the valid range.
CtorArgs == (1..MaxDim) \cup {0, VECTOR_MAX_DIM + 1}

\* The capacities of the buffers callers hand to serialize: too small for
\* the header, the header alone, and enough for MaxDim elements.
Capacities == {4, 8, 8 + 4 * MaxDim}

\* The buffers callers hand to deserialize: a header with nonzero vl_len_
\* and unused fields, then element bytes.  Every dimension a variable may
\* hold comes whole and cut one byte short; dimensions outside the valid
\* range (both edges of int16, both neighbours of the range) come whole;
\* one buffer is cut inside the header.
InputElement(i) == IF i % 2 = 1 THEN NegTwo ELSE QNaN
InputImage(d) ==
    LET n == IF d \in 1..MaxDim THEN d ELSE 1
    IN  Int32Bytes(0 - 2) \o Int16Bytes(d) \o Int16Bytes(513)
          \o [k \in 1..(4 * n) |->
                 FloatBytes(InputElement(((k - 1) \div 4) + 1))[((k - 1) % 4) + 1]]
InvalidDims == {0 - 32768, 0 - 1, 0, VECTOR_MAX_DIM + 1, 32767}
InputBuffers ==
    { InputImage(d) : d \in (1..MaxDim) \cup InvalidDims }
      \cup { SubSeq(InputImage(d), 1, Len(InputImage(d)) - 1) : d \in 1..MaxDim }
      \cup { SubSeq(InputImage(1), 1, 4) }

\* The record of the most recent operation:
\*   op, slot, arg  the operation, the variable it acted on, its integer
\*                  argument (constructor argument, index or capacity);
\*   status         "ok", the kind of the exception thrown, or "crash";
\*   via            for deserialize, who wrote the buffer; for a copy or a
\*                  move, the variable copied or moved from;
\*   src            the operand as it was before the operation;
\*   vec, val       the Vector or the float returned;
\*   bytes          the caller's buffer after the operation;
\*   nio            bytes read or written starting at the buffer's address;
\*   oob            bytes (or elements) accessed outside the object given.
Outcome(op, status, slot, arg, via, src, vec, val, bytes, nio, oob) ==
    [op |-> op, status |-> status, slot |-> slot, arg |-> arg, via |-> via,
     src |-> src, vec |-> vec, val |-> val, bytes |-> bytes, nio |-> nio,
     oob |-> oob]

NoOutcome ==
    Outcome("init", "ok", "a", 0, "", DefaultVector, DefaultVector, PosZero, <<>>, 0, 0)

\* The operands of the pure-method specifications, idle in Spec.
NoOperands == [x |-> DefaultVector, y |-> DefaultVector, z |-> DefaultVector,
               k |-> PosZero, n |-> 0]
NoResult   == [op |-> "none"]

\* The block a null std::unique_ptr<char[]> points to: none.  The blocks
\* that exist are numbered from 1.
NullBlock == 0

\* The memory pool of the specifications that construct none.
NoPool == [block_size_ |-> 0, current_offset_ |-> 0, blocks_ |-> <<>>,
           current_block_ |-> NullBlock]

\* A process killed by an access outside an object makes no further step;
\* nor is a program followed past a std::bad_alloc: what its handler does
\* with the objects it finds is not modelled.
Running == last.status \notin {"crash", "AllocationFailure"}

\* What an access may end as: inside the object it is defined; outside it
\* is undefined behaviour, which goes on silently or kills the process.
Fates(inside) == IF inside THEN {"ok"} ELSE {"ok", "crash"}

Exists(s) == life[s] # "none"

Init ==
    /\ vecs = [s \in Slots |-> DefaultVector]
    /\ life = [s \in Slots |-> "none"]
    /\ last = NoOutcome
    /\ opnd = NoOperands
    /\ out  = NoResult
    /\ pool = NoPool

\* Vector s(n): the int argument converted to int16, then Vector(int16).
NewVector(s, n) ==
    LET r == VectorOfDim(ToInt16(n))
        kept == r.status = "ok"
    IN  /\ Running
        /\ life[s] = "none"
        /\ vecs' = IF kept THEN [vecs EXCEPT ![s] = r.vec] ELSE vecs
        /\ life' = IF kept THEN [life EXCEPT ![s] = "live"] ELSE life
        /\ last' = Outcome("new", r.status, s, n, "", DefaultVector, r.vec,
                           PosZero, <<>>, 0, 0)
        /\ UNCHANGED <<opnd, out, pool>>

\* Vector s;
DefaultCtor(s) ==
    /\ Running
    /\ life[s] = "none"
    /\ vecs' = [vecs EXCEPT ![s] = DefaultVector]
    /\ life' = [life EXCEPT ![s] = "live"]
    /\ last' = Outcome("default", "ok", s, 0, "", DefaultVector, DefaultVector,
                       PosZero, <<>>, 0, 0)
    /\ UNCHANGED <<opnd, out, pool>>

\* Vector t(s);
CopyCtor(s, t) ==
    /\ Running
    /\ Exists(s) /\ life[t] = "none"
    /\ vecs' = [vecs EXCEPT ![t] = CopyOf(vecs[s])]
    /\ life' = [life EXCEPT ![t] = "live"]
    /\ last' = Outcome("copy", "ok", t, 0, s, vecs[s], CopyOf(vecs[s]),
                       PosZero, <<>>, 0, 0)
    /\ UNCHANGED <<opnd, out, pool>>

\* Vector t(std::move(s));
MoveCtor(s, t) ==
    /\ Running
    /\ Exists(s) /\ life[t] = "none"
    /\ vecs' = [vecs EXCEPT ![t] = CopyOf(vecs[s]), ![s] = MovedFrom(vecs[s])]
    /\ life' = [life EXCEPT ![t] = "live", ![s] = "moved"]
    /\ last' = Outcome("move", "ok", t, 0, s, vecs[s], CopyOf(vecs[s]),
                       PosZero, <<>>, 0, 0)
    /\ UNCHANGED <<opnd, out, pool>>

\* t = s;  (this != &other guards the self-assignment.)  The three header
\* fields are assigned first and data = other.data last; when the target's
\* storage is too small for the source's elements that assignment
\* allocates, and when the allocation fails it throws std::bad_alloc with
\* the header already overwritten and the target's elements as they were.
\* (Storage as large as the elements is the least a std::vector has.  The
\* other allocating operations leave no object behind when they throw and
\* are taken with the allocation succeeding.)
CopyAssign(s, t) ==
    /\ Running
    /\ Exists(s) /\ Exists(t)
    /\ \E alloc \in IF s # t /\ DataSize(vecs[s]) > DataSize(vecs[t])
                     THEN {"ok", "AllocationFailure"} ELSE {"ok"} :
          LET after == IF s = t THEN vecs[t]
                       ELSE IF alloc = "ok" THEN CopyOf(vecs[s])
                       ELSE AssignTorn(vecs[t], vecs[s])
          IN  /\ vecs' = [vecs EXCEPT ![t] = after]
              /\ life' = IF s # t THEN [life EXCEPT ![t] = "live"] ELSE life
              /\ last' = Outcome("copy_assign", alloc, t, 0, s, vecs[s], after,
                                 PosZero, <<>>, 0, 0)
    /\ UNCHANGED <<opnd, out, pool>>

\* t = std::move(s);
MoveAssign(s, t) ==
    /\ Running
    /\ Exists(s) /\ Exists(t)
    /\ vecs' = IF s # t
               THEN [vecs EXCEPT ![t] = CopyOf(vecs[s]), ![s] = MovedFrom(vecs[s])]
               ELSE vecs
    /\ life' = IF s # t THEN [life EXCEPT ![t] = "live", ![s] = "moved"] ELSE life
    /\ last' = Outcome("move_assign", "ok", t, 0, s, vecs[s], vecs'[t],
                       PosZero, <<>>, 0, 0)
    /\ UNCHANGED <<opnd, out, pool>>

\* The variable s goes out of scope.
Destroy(s) ==
    /\ Running
    /\ Exists(s)
    /\ vecs' = [vecs EXCEPT ![s] = DefaultVector]
    /\ life' = [life EXCEPT ![s] = "none"]
    /\ last' = Outcome("destroy", "ok", s, 0, "", DefaultVector, DefaultVector,
                       PosZero, <<>>, 0, 0)
    /\ UNCHANGED <<opnd, out, pool>>


\* s.getValue(index) and the const s[index]: return data[index], unchecked.
\* An index past the storage is undefined behaviour: the read returns
\* whatever lies there, or the process dies.
ReadElement(op, s, index) ==
    /\ Running
    /\ Exists(s)
    /\ LET inside == index < DataSize(vecs[s])
       IN  \E fate \in Fates(inside),
              x \in IF inside THEN {vecs[s].data[index + 1]} ELSE GarbageFloats :
              /\ fate = "crash" => x = PosZero      \* a dead process returns nothing
              /\ last' = Outcome(op, fate, s, index, "", vecs[s], vecs[s], x,
                                 <<>>, 0, IF inside THEN 0 ELSE 1)
    /\ UNCHANGED <<vecs, life, opnd, out, pool>>

GetValue(s, index)  == ReadElement("getValue", s, index)
IndexRead(s, index) == ReadElement("operator[]", s, index)

\* s.setValue(index, value) and s[index] = value: data[index] = value,
\* unchecked.  An index past the storage is undefined behaviour: the write
\* lands outside the elements, or the process dies.
WriteElement(op, s, index, value) ==
    /\ Running
    /\ Exists(s)
    /\ LET inside == index < DataSize(vecs[s])
           after  == IF inside THEN StoreAt(vecs[s], index, value) ELSE vecs[s]
       IN  \E fate \in Fates(inside) :
              /\ vecs' = [vecs EXCEPT ![s] = after]
              /\ last' = Outcome(op, fate, s, index, "", vecs[s], after, value,
                                 <<>>, 0, IF inside THEN 0 ELSE 1)
    /\ UNCHANGED <<life, opnd, out, pool>>

SetValue(s, index, value)   == WriteElement("setValue", s, index, value)
IndexWrite(s, index, value) == WriteElement("operator[]=", s, index, value)

\* s.serialize(buffer) with a buffer of cap bytes.  The method is not told
\* cap: a buffer too small is overrun (undefined behaviour), silently or
\* with the process dying.
Serialize(s, cap) ==
    /\ Running
    /\ Exists(s)
    /\ \E image \in {serialize(vecs[s])} :
          \E fate \in Fates(Len(image) <= cap) :
              last' = Outcome("serialize", fate, s, cap, "", vecs[s], vecs[s],
                              PosZero, SubSeq(image, 1, Min(cap, Len(image))),
                              Len(image), Max(0, Len(image) - cap))
    /\ UNCHANGED <<vecs, life, opnd, out, pool>>

\* Vector t = Vector::deserialize(buffer) on a buffer of Len(bytes) bytes.
\* The method is not told the length: a buffer too short is read past its
\* end (undefined behaviour), silently or with the process dying.  The
\* caller keeps the Vector in t unless it was read from outside the buffer
\* or is larger than MaxDim; then it is a temporary, seen in last only.
DeserializeFrom(t, bytes, via, src) ==
    /\ Running
    /\ life[t] = "none"
    /\ \E inside \in {Len(bytes) >= 8 /\ deserialize(bytes, 0).nread <= Len(bytes)} :
          \E fate \in Fates(inside), g \in IF inside THEN {0} ELSE GarbageBytes :
          \E r \in {deserialize(bytes, g)} :
          LET status == IF fate = "crash" THEN "crash" ELSE r.status
              kept   == status = "ok" /\ inside /\ r.vec.dim <= MaxDim
          IN  /\ vecs' = IF kept THEN [vecs EXCEPT ![t] = r.vec] ELSE vecs
              /\ life' = IF kept THEN [life EXCEPT ![t] = "live"] ELSE life
              /\ last' = Outcome("deserialize", status, t, 0, via, src,
                                 IF status = "ok" THEN r.vec ELSE DefaultVector,
                                 PosZero, bytes, r.nread,
                                 Max(0, r.nread - Len(bytes)))
    /\ UNCHANGED <<opnd, out, pool>>

\* deserialize of a buffer the caller received from elsewhere.
Deserialize(t, bytes) == DeserializeFrom(t, bytes, "caller", DefaultVector)

\* deserialize of the buffer the preceding serialize call wrote, as in
\* test_serialization.
DeserializeWritten(t) ==
    /\ last.op = "serialize"
    /\ DeserializeFrom(t, last.bytes, "serialize", last.src)

Next ==
    \/ \E s \in Slots, n \in CtorArgs : NewVector(s, n)
    \/ \E s \in Slots : DefaultCtor(s)
    \/ \E s, t \in Slots : CopyCtor(s, t)
    \/ \E s, t \in Slots : MoveCtor(s, t)
    \/ \E s, t \in Slots : CopyAssign(s, t)
    \/ \E s, t \in Slots : MoveAssign(s, t)
    \/ \E s \in Slots : Destroy(s)
    \/ \E s \in Slots, i \in Indexes : GetValue(s, i)
    \/ \E s \in Slots, i \in Indexes : IndexRead(s, i)
    \/ \E s \in Slots, i \in Indexes, x \in SetFloats : SetValue(s, i, x)
    \/ \E s \in Slots, i \in Indexes, x \in SetFloats : IndexWrite(s, i, x)
    \/ \E s \in Slots, cap \in Capacities : Serialize(s, cap)
    \/ \E t \in Slots, bytes \in InputBuffers : Deserialize(t, bytes)
    \/ \E t \in Slots : DeserializeWritten(t)

Spec == Init /\ [][Next]_vars


---------------------------------------------------------------------------
(* Properties of Spec.                                                     *)

ValidDim(d) == 1 <= d /\ d <= VECTOR_MAX_DIM

\* The 16-bit two's-complement value of the bytes lo, hi.
Signed16(lo, hi) == IF hi >= 128 THEN (lo + 256 * hi) - 65536 ELSE lo + 256 * hi

\* The dimension a buffer of at least 6 bytes declares at offset 4.
Declared(bytes) == Signed16(bytes[5], bytes[6])

AccessOps == {"getValue", "setValue", "operator[]", "operator[]="}

\* C1: round trip.  When deserialize reads the buffer into which serialize
\* wrote a valid vector v whole (the buffer held all 8 + 4 * dim bytes), it
\* succeeds and returns a vector equal to v in vl_len_ (stored_length), dim,
\* unused (reserved) and every element, bit for bit.
C1_RoundTrip ==
    ( /\ last.op = "deserialize"
      /\ last.via = "serialize"
      /\ ValidDim(last.src.dim)
      /\ Len(last.bytes) = 8 + 4 * last.src.dim )
    => ( /\ last.status = "ok"
         /\ last.vec.vl_len_ = last.src.vl_len_
         /\ last.vec.dim = last.src.dim
         /\ last.vec.unused = last.src.unused
         /\ Len(last.vec.data) = last.src.dim
         /\ \A i \in 1..last.src.dim : last.vec.data[i] = last.src.data[i]
         /\ vecs[last.slot] = last.src )

\* C1 witness: a vector of MaxDim elements with nonzero vl_len_ and unused,
\* a negative element and a NaN element has made the round trip.
C1_Witness ==
    /\ last.op = "deserialize" /\ last.via = "serialize" /\ last.status = "ok"
    /\ last.src.dim = MaxDim /\ last.src.vl_len_ < 0 /\ last.src.unused = 513
    /\ last.src.data[1] = NegTwo
    /\ \E i \in 1..MaxDim : IsNaN(last.src.data[i])
    /\ last.vec = last.src

\* C3: dimension range.  Every Vector a variable holds that has not been
\* moved from has 1 <= dim <= 16000.  (The default constructor breaks it.)
C3_DimensionRange ==
    \A s \in Slots : life[s] = "live" => ValidDim(vecs[s].dim)

\* C5: bounds-checked access.  getValue, setValue and operator[] with an
\* index >= dim fail with IndexOutOfRange, touch nothing outside the
\* elements and leave the vector unchanged; with an index < dim they read
\* or write exactly that element.
C5_BoundsChecked ==
    last.op \in AccessOps =>
       IF last.arg >= last.src.dim
       THEN /\ last.status = "IndexOutOfRange"
            /\ last.oob = 0
            /\ vecs[last.slot] = last.src
       ELSE /\ last.status = "ok"
            /\ last.oob = 0
            /\ last.val = last.vec.data[last.arg + 1]
            /\ \A i \in 1..last.src.dim :
                  i # last.arg + 1 => last.vec.data[i] = last.src.data[i]

\* C6: deserialize validates the dimension.  For a buffer that holds the
\* whole 8-byte header and declares a dimension outside 1..16000, it throws
\* InvalidDimension having read the 8 header bytes and no element byte, and
\* no vector comes into being.
C6_DeserializeRejects ==
    ( /\ last.op = "deserialize"
      /\ Len(last.bytes) >= 8
      /\ ~ValidDim(Declared(last.bytes)) )
    => ( /\ last.status = "InvalidDimension"
         /\ last.nio = 8
         /\ last.oob = 0
         /\ last.vec = DefaultVector
         /\ life[last.slot] = "none" )

\* C6 witness: a buffer declaring 16001 dimensions has been rejected.
C6_Witness ==
    /\ last.op = "deserialize" /\ Len(last.bytes) >= 8
    /\ Declared(last.bytes) = VECTOR_MAX_DIM + 1
    /\ last.status = "InvalidDimension"

\* C15: reserved is carried verbatim.  For a buffer that declares a valid
\* dimension d and holds all 8 + 4 * d bytes, deserialize succeeds whatever
\* the reserved field holds, the vector has that value in unused, and
\* serialize of the vector writes the buffer's first 8 + 4 * d bytes again.
C15_ReservedVerbatim ==
    ( /\ last.op = "deserialize"
      /\ Len(last.bytes) >= 8
      /\ ValidDim(Declared(last.bytes))
      /\ Len(last.bytes) >= 8 + 4 * Declared(last.bytes) )
    => ( /\ last.status = "ok"
         /\ last.vec.unused = Signed16(last.bytes[7], last.bytes[8])
         /\ Len(serialize(last.vec)) = 8 + 4 * Declared(last.bytes)
         /\ \A k \in 1..(8 + 4 * Declared(last.bytes)) :
               serialize(last.vec)[k] = last.bytes[k] )

\* C15 witness: a buffer from the caller with reserved = 513 and MaxDim
\* elements has been deserialized.
C15_Witness ==
    /\ last.op = "deserialize" /\ last.via = "caller" /\ last.status = "ok"
    /\ Len(last.bytes) = 8 + 4 * MaxDim
    /\ Declared(last.bytes) = MaxDim
    /\ Signed16(last.bytes[7], last.bytes[8]) = 513
    /\ last.vec.unused = 513

\* The operations that act on one Vector variable and on no other: the
\* constructors, element writes, the destructor, and the target side of a
\* copy (whose source is const).
OneVectorOps ==
    {"new", "default", "deserialize", "copy", "copy_assign", "setValue",
     "operator[]=", "destroy"}

C17_MoveSemantics ==
    last.op \in {"move", "move_assign"} =>
       /\ vecs[last.slot].dim = last.src.dim
       /\ vecs[last.slot].data = last.src.data
       /\ vecs[last.slot].unused = last.src.unused
       /\ vecs[last.slot].vl_len_ = last.src.vl_len_
       /\ last.via # last.slot =>
             /\ getDim(vecs[last.via]) = 0
             /\ vecs[last.via].data = <<>>

\* C17 witness: a Vector of MaxDim elements with a nonzero header has been
\* move-assigned from one variable to the other.
C17_Witness ==
    /\ last.op = "move_assign" /\ last.via # last.slot
    /\ last.src.dim = MaxDim /\ last.src.unused = 513 /\ last.src.vl_len_ # 0
    /\ vecs[last.slot] = last.src
    /\ getDim(vecs[last.via]) = 0

\* C18: the dimension is fixed at creation.  No step changes the dim of a
\* Vector that exists before and after it, except that a move resets the
\* dim of its source to 0.  (Assignment gives its target the dim of the
\* source.)
C18_DimensionFixed ==
    [][ \A s \in Slots :
           ( /\ Exists(s)
             /\ life'[s] # "none"
             /\ ~(last'.op \in {"move", "move_assign"} /\ last'.via = s) )
           => getDim(vecs'[s]) = getDim(vecs[s]) ]_vars

\* C19: length invariant.  Every Vector a variable holds, default
\* constructed and moved-from ones included, and every Vector an operation
\* returned, holds exactly dim elements.  (A copy assignment that throws
\* std::bad_alloc breaks it.)
C19_LengthInvariant ==
    /\ \A s \in Slots : Exists(s) => DataSize(vecs[s]) = getDim(vecs[s])
    /\ DataSize(last.vec) = getDim(last.vec)

\* C7: serialization stays inside the caller's buffer.  serialize into
\* fewer than 8 + 4 * dim bytes fails with BufferTooSmall and writes nothing
\* past the end; deserialize of fewer than 8 bytes, or of fewer than
\* 8 + 4 * (declared dimension) bytes, fails with TruncatedInput and reads
\* nothing past the end.
C7_BufferChecked ==
    /\ (last.op = "serialize" /\ last.arg < 8 + 4 * last.src.dim)
          => (last.status = "BufferTooSmall" /\ last.oob = 0)
    /\ (last.op = "deserialize" /\ Len(last.bytes) < 8)
          => (last.status = "TruncatedInput" /\ last.oob = 0)
    /\ ( /\ last.op = "deserialize" /\ Len(last.bytes) >= 8
         /\ ValidDim(Declared(last.bytes))
         /\ Len(last.bytes) < 8 + 4 * Declared(last.bytes) )
          => (last.status = "TruncatedInput" /\ last.oob = 0)


---------------------------------------------------------------------------
(* SpecNew: Vector(int16) applied to an argument drawn by Init.            *)

\* The arguments: around 0, around VECTOR_MAX_DIM, around both edges of
\* int16, and around the values that the conversion to int16 wraps onto 0
\* and onto VECTOR_MAX_DIM.
NewArgs ==
    UNION { (c - NewSpan)..(c + NewSpan) :
              c \in {0, VECTOR_MAX_DIM, 32767, 0 - 32768, 65536,
                     65536 + VECTOR_MAX_DIM} }

IdleSpec == vecs = [s \in Slots |-> DefaultVector]
            /\ life = [s \in Slots |-> "none"]
            /\ last = NoOutcome
            /\ pool = NoPool

InitNew ==
    /\ IdleSpec
    /\ opnd \in {[NoOperands EXCEPT !.n = n] : n \in NewArgs}
    /\ out = NoResult

\* Vector v(n);
Construct ==
    /\ out.op = "none"
    /\ out' = [op |-> "new", res |-> VectorOfDim(ToInt16(opnd.n))]
    /\ UNCHANGED <<vecs, life, last, opnd, pool>>

NextNew == Construct

SpecNew == InitNew /\ [][NextNew]_vars

\* C2: new(d).  For an argument d the int16 parameter holds, the
\* constructor succeeds exactly when 1 <= d <= 16000; then the vector has
\* dim = d and d elements, all +0.0; otherwise it throws InvalidDimension
\* and there is no vector.
C2_NewVector ==
    (out.op = "new" /\ opnd.n >= 0 - 32768 /\ opnd.n <= 32767) =>
       IF 1 <= opnd.n /\ opnd.n <= 16000
       THEN /\ out.res.status = "ok"
            /\ getDim(out.res.vec) = opnd.n
            /\ Len(out.res.vec.data) = opnd.n
            /\ \A i \in 1..opnd.n : out.res.vec.data[i] = PosZero
       ELSE /\ out.res.status = "InvalidDimension"
            /\ out.res.vec = DefaultVector

\* C2 witness: Vector(16000) has been constructed with 16000 zero elements.
C2_Witness ==
    /\ out.op = "new" /\ opnd.n = 16000 /\ out.res.status = "ok"
    /\ Len(out.res.vec.data) = 16000 /\ out.res.vec.data[16000] = PosZero

\* C14: stored_length.  The 4-byte value serialize writes at offset 0 for
\* a vector made by Vector(d) is 8 + 4 * d, the length of the image.
\* (The constructor leaves vl_len_ at 0.)
C14_StoredLength ==
    (out.op = "new" /\ out.res.status = "ok") =>
       LET image == serialize(out.res.vec)
       IN  /\ out.res.vec.vl_len_ = 8 + 4 * getDim(out.res.vec)
           /\ BytesInt32(<<image[1], image[2], image[3], image[4]>>)
                 = 8 + 4 * getDim(out.res.vec)

\* C22: construction does not wrap its argument.  For every 32-bit
\* argument d a caller passes to Vector(int16), the constructor throws or
\* makes a vector with getDim() = d, and no d outside 1..16000 makes a
\* vector.  (The conversion to the int16 parameter takes d modulo 2^16
\* before validate_dimension sees it: 65537 makes a vector of dimension 1.)
C22_NoWrap ==
    out.op = "new" =>
       /\ out.res.status = "ok" => getDim(out.res.vec) = opnd.n
       /\ (opnd.n < 1 \/ opnd.n > VECTOR_MAX_DIM) => out.res.status # "ok"

---------------------------------------------------------------------------
(* SpecCmp: the comparison operators applied to operands drawn by Init.    *)

\* Every sequence of n elements of S.
SeqsOfLen(S, n) == [1..n -> S]

\* The Vectors of at most n elements of S, as setValue can make them from
\* Vector(d); and Vector(), which has none.
VectorsOver(S, n) ==
    {DefaultVector} \cup
    UNION { {Vec(0, d, 0, xs) : xs \in SeqsOfLen(S, d)} : d \in 1..n }

CmpFloats == {PosZero, NegZero, One, QNaN}
CmpVectors == VectorsOver(CmpFloats, CmpDim)
CmpThird   == VectorsOver({PosZero, One, QNaN}, CmpDim)

Names == {"x", "y", "z"}

InitCmp ==
    /\ IdleSpec
    /\ opnd \in {[NoOperands EXCEPT !.x = x, !.y = y, !.z = z] :
                    x \in CmpVectors, y \in CmpVectors, z \in CmpThird}
    /\ out = NoResult

\* Every comparison operator applied to every pair of the operands.
Compare ==
    /\ out.op = "none"
    /\ out' = [op |-> "compare",
               eq |-> [p \in Names |-> [q \in Names |-> OpEq(opnd[p], opnd[q])]],
               ne |-> [p \in Names |-> [q \in Names |-> OpNe(opnd[p], opnd[q])]],
               lt |-> [p \in Names |-> [q \in Names |-> OpLess(opnd[p], opnd[q])]],
               le |-> [p \in Names |-> [q \in Names |-> OpLe(opnd[p], opnd[q])]],
               gt |-> [p \in Names |-> [q \in Names |-> OpGt(opnd[p], opnd[q])]],
               ge |-> [p \in Names |-> [q \in Names |-> OpGe(opnd[p], opnd[q])]]]
    /\ UNCHANGED <<vecs, life, last, opnd, pool>>

NextCmp == Compare

SpecCmp == InitCmp /\ [][NextCmp]_vars

\* The order C8 describes: the smallest index at which the elements differ
\* decides; if none of the first min(dim) differ, the dimensions decide.
ClaimedLess(a, b) ==
    LET differ == {i \in 1..Min(a.dim, b.dim) : ~FEq(a.data[i], b.data[i])}
        first  == CHOOSE i \in differ : \A j \in differ : i <= j
    IN  IF differ # {} THEN FLess(a.data[first], b.data[first])
        ELSE a.dim < b.dim

\* C8: operator< is the lexicographic order with the dimension as the
\* tie-break: a < b iff at the smallest index where the elements differ
\* a[i] < b[i], or the first min(dim) elements are all equal and
\* a.dim < b.dim.
C8_Lexicographic ==
    out.op = "compare" =>
       \A p, q \in Names : out.lt[p][q] <=> ClaimedLess(opnd[p], opnd[q])

\* C9: operator< is a strict weak ordering: irreflexive, asymmetric,
\* transitive, and with a transitive incomparability.
C9_StrictWeakOrder ==
    out.op = "compare" =>
       LET lt(p, q)  == out.lt[p][q]
           inc(p, q) == ~lt(p, q) /\ ~lt(q, p)
       IN  \A p, q, r \in Names :
              /\ ~lt(p, p)
              /\ lt(p, q) => ~lt(q, p)
              /\ (lt(p, q) /\ lt(q, r)) => lt(p, r)
              /\ (inc(p, q) /\ inc(q, r)) => inc(p, r)

\* C10: the derived relations agree: a <= b iff a < b or a == b; a > b iff
\* not a <= b; a >= b iff a > b or a == b; a > b iff b < a; and exactly one
\* of a < b, a == b, b < a holds.
C10_DerivedRelations ==
    out.op = "compare" =>
       \A p, q \in Names :
          /\ out.le[p][q] <=> (out.lt[p][q] \/ out.eq[p][q])
          /\ out.gt[p][q] <=> ~out.le[p][q]
          /\ out.ge[p][q] <=> (out.gt[p][q] \/ out.eq[p][q])
          /\ out.gt[p][q] <=> out.lt[q][p]
          /\ \/ (out.lt[p][q] /\ ~out.eq[p][q] /\ ~out.lt[q][p])
             \/ (~out.lt[p][q] /\ out.eq[p][q] /\ ~out.lt[q][p])
             \/ (~out.lt[p][q] /\ ~out.eq[p][q] /\ out.lt[q][p])

---------------------------------------------------------------------------
(* Arithmetic and metrics: vector.cpp 48-81 and 113-148.  Each float       *)
(* expression is rounded as it is written: the product of `sum += a * b`   *)
(* is rounded before it is added.  A build may instead contract that       *)
(* expression into a fused multiply-add (the compiler's choice, as g++     *)
(* makes it for a target with the instruction): the _fused definitions     *)
(* are the methods so compiled.                                            *)

\* What a float-valued call returns: a status and, when ok, the value;
\* divided tells whether the call evaluated a division.
FOk(v, d)    == [status |-> "ok", val |-> v, divided |-> d]
FThrow(kind) == [status |-> kind, val |-> PosZero, divided |-> FALSE]

\* x op y for the op of the three elementwise operators.
Binary(op, x, y) ==
    IF op = "+" THEN FAdd(x, y) ELSE IF op = "-" THEN FSub(x, y) ELSE FMul(x, y)

\* check_compatibility(other); Vector result(dim); then the loop over
\* data.size() elements that fills result.data.
Elementwise(op, a, b) ==
    IF check_compatibility(a, b) # "ok" THEN Throw(check_compatibility(a, b))
    ELSE IF VectorOfDim(a.dim).status # "ok" THEN VectorOfDim(a.dim)
    ELSE Ok([VectorOfDim(a.dim).vec EXCEPT
               !.data = [i \in 1..Len(a.data) |-> Binary(op, a.data[i], b.data[i])]])

\* operator+(const Vector&)
OpAdd(a, b) == Elementwise("+", a, b)

\* operator- as it would be with the operands of the subtraction swapped.
OpSub_reversed(a, b) == Elementwise("-", b, a)

\* operator-(const Vector&)
OpSub(a, b) == Elementwise("-", a, b)

\* operator*(const Vector&)
OpMul(a, b) == Elementwise("*", a, b)

\* operator*(float): Vector result(dim) with no check before it.
OpScale(a, scalar) ==
    IF VectorOfDim(a.dim).status # "ok" THEN VectorOfDim(a.dim)
    ELSE Ok([VectorOfDim(a.dim).vec EXCEPT
               !.data = [i \in 1..Len(a.data) |-> FMul(a.data[i], scalar)]])

\* float sum = 0.0f; for each term in order: sum += term.
RECURSIVE Accumulate(_, _, _)
Accumulate(terms, i, sum) ==
    IF i > Len(terms) THEN sum
    ELSE Accumulate(terms, i + 1, FAdd(sum, terms[i]))

l2_norm(v) ==
    FSqrt(Accumulate([i \in 1..Len(v.data) |-> FMul(v.data[i], v.data[i])],
                     1, PosZero))

l1_norm(v) ==
    Accumulate([i \in 1..Len(v.data) |-> FAbs(v.data[i])], 1, PosZero)

dot_product(a, b) ==
    IF check_compatibility(a, b) # "ok" THEN FThrow(check_compatibility(a, b))
    ELSE FOk(Accumulate([i \in 1..Len(a.data) |-> FMul(a.data[i], b.data[i])],
                        1, PosZero), FALSE)

\* float sum = 0.0f; for each i in order: sum += a[i] * b[i], contracted.
RECURSIVE AccumulateFused(_, _, _, _)
AccumulateFused(a, b, i, sum) ==
    IF i > Len(a) THEN sum
    ELSE AccumulateFused(a, b, i + 1, FMulAdd(a[i], b[i], sum))

l2_norm_fused(v) == FSqrt(AccumulateFused(v.data, v.data, 1, PosZero))

dot_product_fused(a, b) ==
    IF check_compatibility(a, b) # "ok" THEN FThrow(check_compatibility(a, b))
    ELSE FOk(AccumulateFused(a.data, b.data, 1, PosZero), FALSE)

\* cosine_similarity as it would be with the zero-norm test ahead of the
\* call of dot_product.
cosine_similarity_norms_first(a, b) ==
    IF FEq(l2_norm(a), PosZero) \/ FEq(l2_norm(b), PosZero)
    THEN FOk(PosZero, FALSE)
    ELSE IF dot_product(a, b).status # "ok" THEN dot_product(a, b)
    ELSE FOk(FDiv(dot_product(a, b).val, FMul(l2_norm(a), l2_norm(b))), TRUE)

\* cosine_similarity as it would be without the zero-norm test.
cosine_similarity_no_zero_test(a, b) ==
    IF dot_product(a, b).status # "ok" THEN dot_product(a, b)
    ELSE FOk(FDiv(dot_product(a, b).val, FMul(l2_norm(a), l2_norm(b))), TRUE)

\* cosine_similarity: dot_product (which checks the dimensions) first, then
\* both norms, the zero-norm test, and the division.
cosine_similarity(a, b) ==
    IF dot_product(a, b).status # "ok" THEN dot_product(a, b)
    ELSE IF FEq(l2_norm(a), PosZero) \/ FEq(l2_norm(b), PosZero)
    THEN FOk(PosZero, FALSE)
    ELSE FOk(FDiv(dot_product(a, b).val, FMul(l2_norm(a), l2_norm(b))), TRUE)

cosine_similarity_fused(a, b) ==
    LET dot    == dot_product_fused(a, b)
        norm_a == l2_norm_fused(a)
        norm_b == l2_norm_fused(b)
    IN  IF dot.status # "ok" THEN dot
        ELSE IF FEq(norm_a, PosZero) \/ FEq(norm_b, PosZero)
        THEN FOk(PosZero, FALSE)
        ELSE FOk(FDiv(dot.val, FMul(norm_a, norm_b)), TRUE)

---------------------------------------------------------------------------
(* SpecArith: the arithmetic and metric methods applied to operands drawn  *)
(* by Init.                                                                *)

\* 2^25: adding 1.0f to it is rounded away.
Big == Flt(0, 152, 0)

ArithFloats  == {PosZero, NegZero, One, Two, Big, QNaN}
ArithCore    == {PosZero, One, Big}
ArithScalars == {Two, QNaN}

\* 3.0f, 4.0f, 5.0f, 6.0f
Three == Flt(0, 128, 4194304)
Four  == Flt(0, 129, 0)
Five  == Flt(0, 129, 2097152)
Six   == Flt(0, 129, 4194304)

\* v1 and v2 of test_basic_operations: [1, 2, 3] and [4, 5, 6].
ExampleA == Vec(0, 3, 0, <<One, Two, Three>>)
ExampleB == Vec(0, 3, 0, <<Four, Five, Six>>)

\* [-1, 1 + 2^-12] and [1 + 2^-11, 1 + 2^-12]: the square of 1 + 2^-12 is
\* 1 + 2^-11 + 2^-24, which no float holds.
InexactA == Vec(0, 2, 0, <<Flt(1, 127, 0), Flt(0, 127, 2048)>>)
InexactB == Vec(0, 2, 0, <<Flt(0, 127, 4096), Flt(0, 127, 2048)>>)

\* Vector(), every one-element Vector over ArithFloats, every longer
\* Vector over ArithCore, the two of test_basic_operations, and two whose
\* products are rounded.
ArithVectors ==
    VectorsOver(ArithFloats, 1) \cup VectorsOver(ArithCore, ArithDim)
      \cup {ExampleA, ExampleB, InexactA, InexactB}

InitArith ==
    /\ IdleSpec
    /\ opnd \in {[NoOperands EXCEPT !.x = x, !.y = y, !.k = k] :
                    x \in ArithVectors, y \in ArithVectors, k \in ArithScalars}
    /\ out = NoResult

\* What a call on the operands a (and b) gave: the Vector or the float it
\* returned, or the exception.  The methods are const and take const
\* references: no operand is assigned.
VecResult(op, a, b, r) ==
    [op |-> op, a |-> a, b |-> b, status |-> r.status, vec |-> r.vec,
     val |-> PosZero, divided |-> FALSE]
FltResult(op, a, b, r) ==
    [op |-> op, a |-> a, b |-> b, status |-> r.status, vec |-> DefaultVector,
     val |-> r.val, divided |-> r.divided]

\* x + y
Add ==
    /\ out' = VecResult("add", opnd.x, opnd.y, OpAdd(opnd.x, opnd.y))
    /\ UNCHANGED <<vecs, life, last, opnd, pool>>

\* x - y
Subtract ==
    /\ out' = VecResult("subtract", opnd.x, opnd.y, OpSub(opnd.x, opnd.y))
    /\ UNCHANGED <<vecs, life, last, opnd, pool>>

\* x * y
Multiply ==
    /\ out' = VecResult("multiply", opnd.x, opnd.y, OpMul(opnd.x, opnd.y))
    /\ UNCHANGED <<vecs, life, last, opnd, pool>>

\* x * k
Scale ==
    /\ out' = VecResult("scale", opnd.x, opnd.x, OpScale(opnd.x, opnd.k))
    /\ UNCHANGED <<vecs, life, last, opnd, pool>>

\* x.l2_norm()
L2Norm ==
    /\ \E norm \in {l2_norm(opnd.x), l2_norm_fused(opnd.x)} :
          out' = FltResult("l2_norm", opnd.x, opnd.x, FOk(norm, FALSE))
    /\ UNCHANGED <<vecs, life, last, opnd, pool>>

\* x.l1_norm()
L1Norm ==
    /\ out' = FltResult("l1_norm", opnd.x, opnd.x, FOk(l1_norm(opnd.x), FALSE))
    /\ UNCHANGED <<vecs, life, last, opnd, pool>>

\* x.dot_product(y)
DotProduct ==
    /\ \E dot \in {dot_product(opnd.x, opnd.y),
                   dot_product_fused(opnd.x, opnd.y)} :
          out' = FltResult("dot_product", opnd.x, opnd.y, dot)
    /\ UNCHANGED <<vecs, life, last, opnd, pool>>

\* x.cosine_similarity(y)
CosineSimilarity ==
    /\ \E cos \in {cosine_similarity(opnd.x, opnd.y),
                   cosine_similarity_fused(opnd.x, opnd.y)} :
          out' = FltResult("cosine_similarity", opnd.x, opnd.y, cos)
    /\ UNCHANGED <<vecs, life, last, opnd, pool>>

\* (x + y) - y
AddThenSubtract ==
    /\ LET sum == OpAdd(opnd.x, opnd.y)
       IN  out' = VecResult("add_subtract", opnd.x, opnd.y,
                            IF sum.status # "ok" THEN sum
                            ELSE OpSub(sum.vec, opnd.y))
    /\ UNCHANGED <<vecs, life, last, opnd, pool>>

\* x.dot_product(y), and x * y for the elements it multiplies: status, val
\* are what dot_product gave, mul and vec what operator* gave.
DotAndMultiply ==
    /\ \E dot \in {dot_product(opnd.x, opnd.y),
                   dot_product_fused(opnd.x, opnd.y)} :
          LET prod == OpMul(opnd.x, opnd.y)
          IN  out' = [op |-> "dot_and_multiply", a |-> opnd.x, b |-> opnd.y,
                      status |-> dot.status, val |-> dot.val,
                      divided |-> dot.divided,
                      mul |-> prod.status, vec |-> prod.vec]
    /\ UNCHANGED <<vecs, life, last, opnd, pool>>

NextArith ==
    \/ Add
    \/ Subtract
    \/ Multiply
    \/ Scale
    \/ L2Norm
    \/ L1Norm
    \/ DotProduct
    \/ CosineSimilarity
    \/ AddThenSubtract
    \/ DotAndMultiply

SpecArith == InitArith /\ [][NextArith]_vars

BinaryOps == {"add", "subtract", "multiply", "dot_product", "cosine_similarity"}

AllZero(v) == \A i \in 1..Len(v.data) : IsZero(v.data[i])

\* C4: for operands of different dimensions each of add, subtract,
\* multiply, dot_product and cosine_similarity throws DimensionMismatch
\* (cosine_similarity also when an operand is all-zero), returns neither a
\* Vector nor a float, evaluates no division, and leaves both operands as
\* they were given.
C4_DimensionMismatch ==
    (out.op \in BinaryOps /\ getDim(out.a) # getDim(out.b)) =>
       /\ out.status = "DimensionMismatch"
       /\ out.vec = DefaultVector
       /\ out.val = PosZero
       /\ ~out.divided
       /\ opnd.x = out.a
       /\ opnd.y = out.b

\* C4 witness: cosine_similarity of an all-zero Vector of two elements with
\* a Vector of one element has thrown DimensionMismatch.
C4_Witness ==
    /\ out.op = "cosine_similarity"
    /\ getDim(out.a) = 2 /\ AllZero(out.a)
    /\ getDim(out.b) = 1
    /\ out.status = "DimensionMismatch"

ElementOps == {"add", "subtract", "multiply", "scale"}

\* Element i of op applied to a, b and the scalar k, as C12 states it.
ClaimedElement(op, a, b, k, i) ==
    IF op = "add" THEN FAdd(a.data[i], b.data[i])
    ELSE IF op = "subtract" THEN FSub(a.data[i], b.data[i])
    ELSE IF op = "multiply" THEN FMul(a.data[i], b.data[i])
    ELSE FMul(a.data[i], k)

\* C12: for operands of equal dimension d, add, subtract, multiply and
\* scale return a vector of dimension d whose element i is a[i] + b[i],
\* a[i] - b[i], a[i] * b[i], a[i] * s, and leave the operands as they were;
\* [1,2,3] and [4,5,6] give the sum [5,7,9], b - a = [3,3,3] and the
\* product [4,10,18].  (Operands of dimension 0 break it.)
C12_Elementwise ==
    (out.op \in ElementOps /\ getDim(out.a) = getDim(out.b)) =>
       /\ out.status = "ok"
       /\ getDim(out.vec) = getDim(out.a)
       /\ Len(out.vec.data) = getDim(out.a)
       /\ \A i \in 1..getDim(out.a) :
             out.vec.data[i] = ClaimedElement(out.op, out.a, out.b, opnd.k, i)
       /\ opnd.x = out.a
       /\ out.op # "scale" => opnd.y = out.b
       /\ (out.op = "add" /\ out.a = ExampleA /\ out.b = ExampleB)
             => out.vec.data = <<Five, Flt(0, 129, 6291456), Flt(0, 130, 1048576)>>
       /\ (out.op = "subtract" /\ out.a = ExampleB /\ out.b = ExampleA)
             => out.vec.data = <<Three, Three, Three>>
       /\ (out.op = "multiply" /\ out.a = ExampleA /\ out.b = ExampleB)
             => out.vec.data = <<Four, Flt(0, 130, 2097152), Flt(0, 131, 1048576)>>

\* C13: zero-norm policy.  cosine_similarity of two vectors of the same
\* dimension, one of them (or both, or the same one twice) all-zero,
\* returns exactly +0.0 and evaluates no division, whichever side the
\* all-zero vector is on.
C13_ZeroNorm ==
    ( /\ out.op = "cosine_similarity"
      /\ getDim(out.a) = getDim(out.b)
      /\ (AllZero(out.a) \/ AllZero(out.b)) )
    => ( /\ out.status = "ok"
         /\ out.val = PosZero
         /\ ~out.divided )

\* C13 witness: cosine_similarity of [-0.0] with [NaN] has returned +0.0.
C13_Witness ==
    /\ out.op = "cosine_similarity" /\ out.status = "ok"
    /\ out.a.data = <<NegZero>> /\ out.b.data = <<QNaN>>
    /\ out.val = PosZero /\ ~out.divided

\* An integer of magnitude below 2^23: the sum of two of them is computed
\* without rounding.
IsSmallInteger(x) ==
    \/ IsZero(x)
    \/ /\ x.e >= 127 /\ x.e <= 149
       /\ x.m % (2 ^ (150 - x.e)) = 0

SameFloat(x, y) == (IsNaN(x) /\ IsNaN(y)) \/ x = y

\* The sum of the elements of v in index order from element 0, from 0.0f.
SumOfElements(v) == Accumulate(v.data, 1, PosZero)

\* C21: for operands of equal dimension, dot_product returns a float and
\* multiply a vector, and the float is the sum of the vector's elements
\* taken in index order; dot([1,2,3],[4,5,6]) is 32.  (Operands of
\* dimension 0 break it: multiply throws and dot_product returns 0.  So
\* does a build that contracts dot_product's sum: each product is then
\* added unrounded.)
C21_DotCrossCheck ==
    (out.op = "dot_and_multiply" /\ getDim(out.a) = getDim(out.b)) =>
       /\ out.status = "ok"
       /\ out.mul = "ok"
       /\ SameFloat(out.val, SumOfElements(out.vec))
       /\ (out.a = ExampleA /\ out.b = ExampleB) => out.val = Flt(0, 132, 0)

---------------------------------------------------------------------------
(* SpecEq: operator== and operator!= applied to operands drawn by Init,    *)
(* whose header fields vary as deserialize can make them.                  *)

\* The <<vl_len_, unused>> headers of the operands.
EqHeaders == {<<0, 0>>, <<16, 513>>}

EqVectors ==
    {Vec(h[1], v.dim, h[2], v.data) :
        h \in EqHeaders, v \in VectorsOver(CmpFloats, EqDim) \ {DefaultVector}}
      \cup {DefaultVector}

InitEq ==
    /\ IdleSpec
    /\ opnd \in {[NoOperands EXCEPT !.x = x, !.y = y] :
                    x \in EqVectors, y \in EqVectors}
    /\ out = NoResult

\* x == y and x != y
Equals ==
    /\ out.op = "none"
    /\ out' = [op |-> "equals",
               eq |-> OpEq(opnd.x, opnd.y),
               ne |-> OpNe(opnd.x, opnd.y),
               reads |-> EqualReads(opnd.x, opnd.y)]
    /\ UNCHANGED <<vecs, life, last, opnd, pool>>

NextEq == Equals

SpecEq == InitEq /\ [][NextEq]_vars

\* C11: operator== is true iff the dimensions are equal and every pair of
\* corresponding elements compares equal; it is false when the dimensions
\* differ, reads no element past either dimension, is decided by the
\* dimensions and elements alone (not by unused or vl_len_), and
\* operator!= is its negation.
C11_Equals ==
    out.op = "equals" =>
       LET a == opnd.x
           b == opnd.y
       IN  /\ out.eq <=> ( /\ a.dim = b.dim
                           /\ \A i \in 1..a.dim : FEq(a.data[i], b.data[i]) )
           /\ a.dim # b.dim => ~out.eq
           /\ out.reads <= Min(a.dim, b.dim)
           /\ out.ne <=> ~out.eq

\* C11 witness: two vectors of two equal elements each, +0.0 against -0.0
\* among them, with different vl_len_ and unused, have compared equal.
C11_Witness ==
    /\ out.op = "equals" /\ out.eq /\ ~out.ne
    /\ opnd.x.dim = 2 /\ opnd.x.unused # opnd.y.unused
    /\ opnd.x.vl_len_ # opnd.y.vl_len_
    /\ opnd.x.data[1] = PosZero /\ opnd.y.data[1] = NegZero

---------------------------------------------------------------------------
(* SpecPool: MemoryPool (memory_utils.hpp 68-112).  The pool is the record *)
(* of the four fields of the class.  A block is the char array one         *)
(* std::make_unique<char[]>(block_size_) made, known by its number; a      *)
(* std::unique_ptr<char[]> is the number of the block it owns, or          *)
(* NullBlock.  A pointer is the record [block, offset]: the block it was   *)
(* computed from and the bytes added to the block's first byte.            *)

\* alignof(std::max_align_t) of the x86-64 build.
MaxAlign == 16

\* Most calls of allocate in a run.
PoolCalls == 4

\* The block sizes a pool is constructed with: a multiple of MaxAlign, and
\* one that is not.
PoolBlockSizes == {40, 48}

\* The sizes callers ask allocate for: 0, sizes up to the block sizes, and
\* one above them.
PoolSizes == {0, 1, 24, 40, 48, 64}

\* align_size: (size + a - 1) & ~(a - 1) for the power of two a, which
\* clears the bits of size + a - 1 below a.  (size_t is 64 bits wide; the
\* sizes here stay far from where the sum wraps.)
align_size(size) == (size + MaxAlign - 1) - ((size + MaxAlign - 1) % MaxAlign)

\* MemoryPool(block_size)
NewPool(block_size) ==
    [block_size_ |-> block_size, current_offset_ |-> 0, blocks_ |-> <<>>,
     current_block_ |-> NullBlock]

\* allocate_new_block: current_block_ takes a new block, which push_back
\* then moves out of it into blocks_, leaving current_block_ null.
allocate_new_block(p) ==
    [p EXCEPT !.blocks_ = Append(p.blocks_, Len(p.blocks_) + 1),
              !.current_block_ = NullBlock,
              !.current_offset_ = 0]

\* The blocks the pool owns: those of blocks_ and that of current_block_.
OwnedBlocks(p) ==
    ({p.blocks_[i] : i \in 1..Len(p.blocks_)} \cup {p.current_block_})
       \ {NullBlock}

\* What a call on the pool gave: the pointer allocate returned for the
\* size asked, the regions (pointer and aligned size) allocate returned
\* earlier since the last reset, and the number of calls of allocate so far.
PoolResult(op, size, status, ptr, earlier, calls) ==
    [op |-> op, size |-> size, status |-> status, ptr |-> ptr,
     earlier |-> earlier, calls |-> calls]

NullPointer == [block |-> NullBlock, offset |-> 0]

InitPool ==
    /\ vecs = [s \in Slots |-> DefaultVector]
    /\ life = [s \in Slots |-> "none"]
    /\ last = NoOutcome
    /\ opnd = NoOperands
    /\ pool \in {NewPool(b) : b \in PoolBlockSizes}
    /\ out = PoolResult("new", 0, "ok", NullPointer, {}, 0)

\* The regions returned since the last reset, after the call out records.
Returned ==
    IF out.op = "allocate" /\ out.status = "ok"
    THEN out.earlier \cup {[ptr |-> out.ptr, size |-> align_size(out.size)]}
    ELSE out.earlier

\* pool.allocate(size).  std::make_unique may throw std::bad_alloc, before
\* any field is assigned.  Adding a nonzero offset to a null pointer is
\* undefined: it yields the pointer that many bytes from null, or kills the
\* process.
PoolAllocate ==
    /\ out.status # "crash"
    /\ out.calls < PoolCalls
    /\ \E size \in PoolSizes :
         LET sz     == align_size(size)
             fresh  == pool.current_offset_ + sz > pool.block_size_
             p      == IF fresh THEN allocate_new_block(pool) ELSE pool
             ptr    == [block |-> p.current_block_,
                        offset |-> p.current_offset_]
             inside == ptr.block # NullBlock \/ ptr.offset = 0
         IN  \E alloc \in IF fresh THEN {"ok", "AllocationFailure"} ELSE {"ok"},
                fate \in Fates(inside) :
               IF alloc # "ok"
               THEN /\ pool' = pool
                    /\ out' = PoolResult("allocate", size, alloc, NullPointer,
                                         Returned, out.calls + 1)
               ELSE IF fate # "ok"
               THEN /\ pool' = p
                    /\ out' = PoolResult("allocate", size, fate, NullPointer,
                                         Returned, out.calls + 1)
               ELSE /\ pool' = [p EXCEPT !.current_offset_ = @ + sz]
                    /\ out' = PoolResult("allocate", size, "ok", ptr,
                                         Returned, out.calls + 1)
    /\ UNCHANGED <<vecs, life, last, opnd>>

\* pool.reset()
PoolReset ==
    /\ out.status # "crash"
    /\ pool' = [pool EXCEPT !.blocks_ = <<>>,
                            !.current_block_ = NullBlock,
                            !.current_offset_ = 0]
    /\ out' = PoolResult("reset", 0, "ok", NullPointer, {}, out.calls)
    /\ UNCHANGED <<vecs, life, last, opnd>>

NextPool ==
    \/ PoolAllocate
    \/ PoolReset

SpecPool == InitPool /\ [][NextPool]_vars

\* Two regions share a byte: they are of the same block and neither ends
\* before the other starts.
Overlap(r, q) ==
    /\ r.ptr.block = q.ptr.block
    /\ r.size > 0 /\ q.size > 0
    /\ r.ptr.offset < q.ptr.offset + q.size
    /\ q.ptr.offset < r.ptr.offset + r.size

\* C23: MemoryPool region validity.  After any calls of allocate and reset
\* on a new pool, a call allocate(size) with 0 < size <= block_size that
\* returns gives a pointer into a block the pool owns, the aligned size
\* bytes from it lie inside the block, and they overlap no region allocate
\* returned earlier since the last reset.  (allocate never returns a
\* pointer into a block: current_block_ is null whenever it is read.)
C23_RegionValid ==
    ( /\ out.op = "allocate" /\ out.status = "ok"
      /\ 0 < out.size /\ out.size <= pool.block_size_ )
    => ( /\ out.ptr.block \in OwnedBlocks(pool)
         /\ out.ptr.offset + align_size(out.size) <= pool.block_size_
         /\ \A r \in out.earlier :
               ~Overlap(r, [ptr |-> out.ptr, size |-> align_size(out.size)]) )

============================================================================
